---- MODULE Spec2Model ----
(***************************************************************************)
(* Cash-flow forecasting pipeline: run_baseline_forecasting,               *)
(* run_behavior_intelligence (account_behavior_metrics and                 *)
(* structural_cash_estimation) and run_cash_requirement_engine.            *)
(*                                                                         *)
(* Numbers.  A float is modelled as an exact rational <<n, d>> in lowest   *)
(* terms with d > 0; NaN is <<0, 0>>.  NaN propagates through arithmetic   *)
(* and every comparison with NaN is FALSE, as in IEEE-754.  The only       *)
(* inexact operation is the square root in the standard deviation, which   *)
(* is rounded down to a multiple of 1/SqrtScale.                           *)
(*                                                                         *)
(* Dates are day numbers; day 0 is a Monday, so dayofweek is Date % 7.     *)
(***************************************************************************)
EXTENDS Integers, Sequences, FiniteSets

VARIABLES
    ledger,            \* the input DataFrame: a set of CashflowRecord rows
    balances,          \* the caller's balance snapshot: a list of rows
    pc,                \* which stage of the pipeline has run
    call,              \* the arguments of the last engine call
    account_metrics,   \* list of rows returned by account_behavior_metrics
    structural_cash,   \* list of rows returned by structural_cash_estimation
    account_forecast,  \* list of rows returned by run_baseline_forecasting
    bank_forecast,     \* list of rows returned by run_baseline_forecasting
    account_req,       \* list of rows returned by run_cash_requirement_engine
    bank_req           \* list of rows returned by run_cash_requirement_engine

vars == <<ledger, balances, pc, call, account_metrics, structural_cash,
          account_forecast, bank_forecast, account_req, bank_req>>

----------------------------------------------------------------------------
(* Bounds of the model *)

MaxObs == 2

MaxH == 7

SqrtScale == 1000

----------------------------------------------------------------------------
(* Floats *)

NaN == <<0, 0>>

IsNaN(x) == x[2] = 0

Abs(i) == IF i < 0 THEN -i ELSE i

RECURSIVE GCD(_, _)
GCD(a, b) == IF b = 0 THEN a ELSE GCD(b, a % b)

Norm(n, d) ==
    LET g == GCD(Abs(n), Abs(d))
        s == IF d < 0 THEN -1 ELSE 1
    IN  <<(s * n) \div g, (s * d) \div g>>

R(i) == <<i, 1>>

Zero == R(0)

One == R(1)

RAdd(x, y) ==
    IF IsNaN(x) \/ IsNaN(y) THEN NaN
    ELSE Norm(x[1] * y[2] + y[1] * x[2], x[2] * y[2])

RNeg(x) == IF IsNaN(x) THEN NaN ELSE <<-x[1], x[2]>>

RSub(x, y) == RAdd(x, RNeg(y))

RMul(x, y) ==
    IF IsNaN(x) \/ IsNaN(y) THEN NaN
    ELSE Norm(x[1] * y[1], x[2] * y[2])

\* x / y; the callers guard y > 0, and 0/0 is NaN as for numpy floats
RDiv(x, y) ==
    IF IsNaN(x) \/ IsNaN(y) \/ y[1] = 0 THEN NaN
    ELSE Norm(x[1] * y[2], x[2] * y[1])

RLt(x, y) == ~IsNaN(x) /\ ~IsNaN(y) /\ x[1] * y[2] < y[1] * x[2]

RLe(x, y) == ~IsNaN(x) /\ ~IsNaN(y) /\ x[1] * y[2] <= y[1] * x[2]

RGt(x, y) == RLt(y, x)

\* Python's max(x, 0): the second argument wins only when it is greater
PyMax(x, y) == IF RGt(y, x) THEN y ELSE x

RAbs(x) == <<Abs(x[1]), x[2]>>

\* Series.fillna(0)
FillNa(x) == IF IsNaN(x) THEN Zero ELSE x

RECURSIVE ISqrt(_, _, _)
ISqrt(v, lo, hi) ==
    IF lo >= hi THEN lo
    ELSE LET mid == (lo + hi + 1) \div 2
         IN  IF mid * mid <= v THEN ISqrt(v, mid, hi) ELSE ISqrt(v, lo, mid - 1)

\* numpy sqrt of a non-negative float, rounded down to 1/SqrtScale
RSqrt(x) ==
    IF IsNaN(x) \/ x[1] < 0 THEN NaN
    ELSE LET v == (x[1] * SqrtScale * SqrtScale) \div x[2]
         IN  Norm(ISqrt(v, 0, IF v < 46340 THEN v ELSE 46340), SqrtScale)

RECURSIVE SumSeq(_)
SumSeq(s) == IF s = <<>> THEN Zero ELSE RAdd(Head(s), SumSeq(Tail(s)))

\* Series.mean(); an empty series has no mean
Mean(s) == IF s = <<>> THEN NaN ELSE RDiv(SumSeq(s), R(Len(s)))

----------------------------------------------------------------------------
(* DataFrame helpers *)

RECURSIVE SortedSeq(_)
\* the integers of S in ascending order (groupby sorts its keys)
SortedSeq(S) ==
    IF S = {} THEN <<>>
    ELSE LET m == CHOOSE x \in S : \A y \in S : x <= y
         IN  <<m>> \o SortedSeq(S \ {m})

RECURSIVE SortByDate(_)
\* g.sort_values("Date") of the rows of one account
SortByDate(rows) ==
    IF rows = {} THEN <<>>
    ELSE LET r == CHOOSE x \in rows : \A y \in rows : x.Date <= y.Date
         IN  <<r>> \o SortByDate(rows \ {r})

\* df.groupby("Account_ID"): the keys, and the group of one key
AccountIds(df) == {r.Account_ID : r \in df}

Group(df, acc) == SortByDate({r \in df : r.Account_ID = acc})

Inflows(g) == [i \in 1..Len(g) |-> R(g[i].Inflow_INR)]

Outflows(g) == [i \in 1..Len(g) |-> R(g[i].Outflow_INR)]

\* Series.tail(n)
TailN(s, n) ==
    IF Len(s) <= n THEN s ELSE SubSeq(s, Len(s) - n + 1, Len(s))

\* Series.std(): sample standard deviation (ddof = 1), NaN below two values
Std(s) ==
    IF Len(s) < 2 THEN NaN
    ELSE LET m  == Mean(s)
             sq == [i \in 1..Len(s) |-> RMul(RSub(s[i], m), RSub(s[i], m))]
         IN  RSqrt(RDiv(SumSeq(sq), R(Len(s) - 1)))

RECURSIVE InsertSorted(_, _)
InsertSorted(x, s) ==
    IF s = <<>> THEN <<x>>
    ELSE IF RLe(x, Head(s)) THEN <<x>> \o s
    ELSE <<Head(s)>> \o InsertSorted(x, Tail(s))

RECURSIVE SortValues(_)
SortValues(s) ==
    IF s = <<>> THEN <<>> ELSE InsertSorted(Head(s), SortValues(Tail(s)))

\* Series.quantile(q): linear interpolation between order statistics
Quantile(s, q) ==
    IF s = <<>> THEN NaN
    ELSE LET v    == SortValues(s)
             pos  == RMul(R(Len(s) - 1), q)
             lo   == pos[1] \div pos[2]
             frac == RSub(pos, R(lo))
         IN  IF lo + 2 > Len(v) THEN v[lo + 1]
             ELSE RAdd(v[lo + 1], RMul(frac, RSub(v[lo + 2], v[lo + 1])))

\* Timestamp.dayofweek
DayOfWeek(d) == d % 7

RECURSIVE Concat(_)
\* pd.DataFrame(records): the per-account lists of records, in order
Concat(ss) == IF ss = <<>> THEN <<>> ELSE Head(ss) \o Concat(Tail(ss))

\* groupby("Date"): the rows of one Date, in order
DateRows(rows, date) == SelectSeq(rows, LAMBDA r : r.Date = date)

\* [col].sum() over the rows of one group
SumCol(rows, col) == SumSeq([i \in 1..Len(rows) |-> rows[i][col]])

Dates(rows) == {rows[i].Date : i \in 1..Len(rows)}

----------------------------------------------------------------------------
(* baseline_forecasting.py *)

DefaultHorizon == 14

DefaultRollingWindow == 14

DefaultAlpha == <<7, 10>>

\* g.groupby("DayOfWeek")[...].mean().to_dict(): weekdays seen, and their mean
DowKeys(g) == {DayOfWeek(g[i].Date) : i \in 1..Len(g)}

DowRows(g, dow) == SelectSeq(g, LAMBDA r : DayOfWeek(r.Date) = dow)

DowProfileIn(g, dow) == Mean(Inflows(DowRows(g, dow)))

DowProfileOut(g, dow) == Mean(Outflows(DowRows(g, dow)))

RollIn(g, rolling_window) == Mean(TailN(Inflows(g), rolling_window))

RollOut(g, rolling_window) == Mean(TailN(Outflows(g), rolling_window))

\* g["Date"].max()
LastDate(g) == CHOOSE d \in Dates(g) : \A e \in Dates(g) : e <= d

\* dict.get(dow, 0): an unseen weekday counts as 0
DowInZero(g, dow, roll_in) ==
    IF dow \in DowKeys(g) THEN DowProfileIn(g, dow) ELSE Zero

\* dict.get(dow, roll)
DowIn(g, dow, roll_in) ==
    IF dow \in DowKeys(g) THEN DowProfileIn(g, dow) ELSE roll_in

DowOut(g, dow, roll_out) ==
    IF dow \in DowKeys(g) THEN DowProfileOut(g, dow) ELSE roll_out

\* alpha * roll + alpha * dow: the seasonal weight is not complemented
BlendSameWeight(alpha, roll, dow) ==
    RAdd(RMul(alpha, roll), RMul(alpha, dow))

\* alpha * roll + (1 - alpha) * dow
Blend(alpha, roll, dow) ==
    RAdd(RMul(alpha, roll), RMul(RSub(One, alpha), dow))

\* a date_range that starts on the last historical day itself
FutureDatesFromLast(last_date, horizon) ==
    [k \in 1..horizon |-> last_date + k - 1]

\* pd.date_range(start = last_date + 1 day, periods = horizon, freq = "D")
FutureDates(last_date, horizon) == [k \in 1..horizon |-> last_date + k]

\* a prediction stored without the clamp
ClampNone(pred) == pred

\* max(pred, 0)
Clamp(pred) == PyMax(pred, Zero)

\* the body of the loop over accounts: the forecast records of one account
ForecastAccount(acc, g, horizon, rolling_window, alpha) ==
    LET roll_in  == RollIn(g, rolling_window)
        roll_out == RollOut(g, rolling_window)
        future   == FutureDates(LastDate(g), horizon)
    IN  [k \in 1..Len(future) |->
            LET d   == future[k]
                dow == DayOfWeek(d)
            IN  [Date              |-> d,
                 Account_ID        |-> acc,
                 Predicted_Inflow  |->
                     Clamp(Blend(alpha, roll_in, DowIn(g, dow, roll_in))),
                 Predicted_Outflow |->
                     Clamp(Blend(alpha, roll_out, DowOut(g, dow, roll_out))),
                 Model             |-> "BASELINE"]]

AccountForecast(df, horizon, rolling_window, alpha) ==
    LET accs == SortedSeq(AccountIds(df))
    IN  Concat([i \in 1..Len(accs) |->
            ForecastAccount(accs[i], Group(df, accs[i]),
                            horizon, rolling_window, alpha)])

\* a bank forecast reindexed over the whole date span, absent days summing to 0
BankForecastZeroFilled(fc) ==
    LET ds == SortedSeq({d \in 0..(2 * DefaultHorizon + MaxH) :
                           \E a, b \in Dates(fc) : a <= d /\ d <= b})
    IN  [i \in 1..Len(ds) |->
            LET rows == DateRows(fc, ds[i])
            IN  [Date              |-> ds[i],
                 Predicted_Inflow  |-> SumCol(rows, "Predicted_Inflow"),
                 Predicted_Outflow |-> SumCol(rows, "Predicted_Outflow"),
                 Model             |-> "BASELINE_BANK"]]

\* account_forecast.groupby("Date")[...].sum().reset_index()
BankForecast(fc) ==
    LET ds == SortedSeq(Dates(fc))
    IN  [i \in 1..Len(ds) |->
            LET rows == DateRows(fc, ds[i])
            IN  [Date              |-> ds[i],
                 Predicted_Inflow  |-> SumCol(rows, "Predicted_Inflow"),
                 Predicted_Outflow |-> SumCol(rows, "Predicted_Outflow"),
                 Model             |-> "BASELINE_BANK"]]

----------------------------------------------------------------------------
(* behavior_intelligence.py *)

DefaultQuantile == <<1, 4>>

\* std_out / avg_out if avg_out > 0 else np.nan
OutflowCV(std_out, avg_out) ==
    IF RGt(avg_out, Zero) THEN RDiv(std_out, avg_out) ELSE NaN

\* 1 / (1 + cv_out) without the isnan test
StabilityScoreUnguarded(cv_out) == RDiv(One, RAdd(One, cv_out))

\* 1 / (1 + cv_out) if not np.isnan(cv_out) else 0
StabilityScore(cv_out) ==
    IF ~IsNaN(cv_out) THEN RDiv(One, RAdd(One, cv_out)) ELSE Zero

\* one record of account_behavior_metrics
BehaviorRecord(acc, g) ==
    LET avg_in  == Mean(Inflows(g))
        avg_out == Mean(Outflows(g))
        std_out == Std(Outflows(g))
        cv_out  == OutflowCV(std_out, avg_out)
    IN  [Account_ID         |-> acc,
         Avg_Inflow         |-> avg_in,
         Avg_Outflow        |-> avg_out,
         Net_Flow           |-> RSub(avg_in, avg_out),
         Outflow_Volatility |-> std_out,
         Outflow_CV         |-> cv_out,
         Stability_Score    |-> StabilityScore(cv_out)]

AccountBehaviorMetrics(df) ==
    LET accs == SortedSeq(AccountIds(df))
    IN  [i \in 1..Len(accs) |-> BehaviorRecord(accs[i], Group(df, accs[i]))]

\* structural_inflow / mean_inflow without the test of the denominator
StructuralRatioUnguarded(structural_inflow, mean_inflow) ==
    RDiv(structural_inflow, mean_inflow)

\* structural_inflow / mean_inflow if mean_inflow > 0 else 0
StructuralRatio(structural_inflow, mean_inflow) ==
    IF RGt(mean_inflow, Zero) THEN RDiv(structural_inflow, mean_inflow) ELSE Zero

\* one record of structural_cash_estimation
StructuralRecord(acc, g, quantile) ==
    LET structural_inflow == Quantile(Inflows(g), quantile)
        mean_inflow       == Mean(Inflows(g))
    IN  [Account_ID        |-> acc,
         Structural_Inflow |-> structural_inflow,
         Volatile_Inflow   |-> PyMax(RSub(mean_inflow, structural_inflow), Zero),
         Structural_Ratio  |-> StructuralRatio(structural_inflow, mean_inflow)]

StructuralCashEstimation(df, quantile) ==
    LET accs == SortedSeq(AccountIds(df))
    IN  [i \in 1..Len(accs) |->
            StructuralRecord(accs[i], Group(df, accs[i]), quantile)]

----------------------------------------------------------------------------
(* cash_requirement_engine.py *)

DefaultStressPct == <<15, 100>>

DefaultConfidenceFactor == <<165, 100>>

\* the column `col` of the rows of `right` with this Account_ID
Matches(right, acc, col) ==
    LET m == SelectSeq(right, LAMBDA r : r.Account_ID = acc)
    IN  [i \in 1..Len(m) |-> m[i][col]]

\* an inner join: a left row without a match is dropped
InnerJoin(right, acc, col) == Matches(right, acc, col)

\* left.merge(right[["Account_ID", col]], on = "Account_ID", how = "left"):
\* the values of `col` joined to one left row; NaN when no row matches
LeftJoin(right, acc, col) ==
    LET m == Matches(right, acc, col)
    IN  IF m = <<>> THEN <<NaN>> ELSE m

\* abs(gap) without the np.where
IdleCashAbs(gap) == RAbs(gap)

\* np.where(gap < 0, abs(gap), 0)
IdleCash(gap) == IF RLt(gap, Zero) THEN RAbs(gap) ELSE Zero

\* np.select([gap > 0, gap <= 0], [raise, invest], default = monitor)
Select(gap, raise, invest, monitor) ==
    IF RGt(gap, Zero) THEN raise
    ELSE IF RLe(gap, Zero) THEN invest
    ELSE monitor

AccountAction(gap) == Select(gap, "RAISE_FUNDS", "INVEST_SURPLUS", "MONITOR")

\* the bank table classified with the account-scope labels
BankActionAccountLabels(gap) == AccountAction(gap)

BankAction(gap) ==
    Select(gap, "BANK_FUNDING_REQUIRED", "BANK_HAS_EXCESS_LIQUIDITY",
           "BANK_MONITOR")

\* one merged row, after fillna and the derived columns
RequirementRow(f, vol, struct, bal, stress_pct, confidence_factor) ==
    LET volatility == FillNa(vol)
        structural == FillNa(struct)
        balance    == FillNa(bal)
        safety     == RMul(volatility, confidence_factor)
        stress     == RMul(f.Predicted_Outflow, stress_pct)
        required   == RSub(RAdd(RAdd(f.Predicted_Outflow, safety), stress),
                           structural)
        gap        == RSub(required, balance)
    IN  [Date               |-> f.Date,
         Account_ID         |-> f.Account_ID,
         Predicted_Inflow   |-> f.Predicted_Inflow,
         Predicted_Outflow  |-> f.Predicted_Outflow,
         Outflow_Volatility |-> volatility,
         Structural_Inflow  |-> structural,
         Balance_INR        |-> balance,
         Safety_Buffer      |-> safety,
         Stress_Buffer      |-> stress,
         Reliable_Inflow    |-> structural,
         Required_Cash      |-> required,
         Funding_Gap        |-> gap,
         Idle_Cash          |-> IdleCash(gap),
         Action             |-> AccountAction(gap)]

\* the rows one forecast row becomes after the three left merges
MergedRows(f, metrics, structural, bals, stress_pct, confidence_factor) ==
    LET vs == LeftJoin(metrics, f.Account_ID, "Outflow_Volatility")
        ss == LeftJoin(structural, f.Account_ID, "Structural_Inflow")
        bs == LeftJoin(bals, f.Account_ID, "Balance_INR")
    IN  Concat([i \in 1..Len(vs) |->
            Concat([j \in 1..Len(ss) |->
                [k \in 1..Len(bs) |->
                    RequirementRow(f, vs[i], ss[j], bs[k],
                                   stress_pct, confidence_factor)]])])

AccountRequirement(fc, metrics, structural, bals, stress_pct, confidence_factor) ==
    Concat([i \in 1..Len(fc) |->
        MergedRows(fc[i], metrics, structural, bals,
                   stress_pct, confidence_factor)])

\* a bank table whose Idle_Cash is derived from the summed Funding_Gap, as the
\* account rows derive theirs, instead of being summed
BankRequirementIdleFromGap(df) ==
    LET ds == SortedSeq(Dates(df))
    IN  [i \in 1..Len(ds) |->
            LET rows == DateRows(df, ds[i])
                gap  == SumCol(rows, "Funding_Gap")
            IN  [Date              |-> ds[i],
                 Predicted_Inflow  |-> SumCol(rows, "Predicted_Inflow"),
                 Predicted_Outflow |-> SumCol(rows, "Predicted_Outflow"),
                 Required_Cash     |-> SumCol(rows, "Required_Cash"),
                 Funding_Gap       |-> gap,
                 Idle_Cash         |-> IdleCash(gap),
                 Action            |-> BankAction(gap)]]

\* df.groupby("Date")[...].sum().reset_index(), then the bank Action
BankRequirement(df) ==
    LET ds == SortedSeq(Dates(df))
    IN  [i \in 1..Len(ds) |->
            LET rows == DateRows(df, ds[i])
                gap  == SumCol(rows, "Funding_Gap")
            IN  [Date              |-> ds[i],
                 Predicted_Inflow  |-> SumCol(rows, "Predicted_Inflow"),
                 Predicted_Outflow |-> SumCol(rows, "Predicted_Outflow"),
                 Required_Cash     |-> SumCol(rows, "Required_Cash"),
                 Funding_Gap       |-> gap,
                 Idle_Cash         |-> SumCol(rows, "Idle_Cash"),
                 Action            |-> BankAction(gap)]]

----------------------------------------------------------------------------
(* The inputs *)

\* (Inflow_INR, Outflow_INR, Balance_INR) of a ledger row: a surplus day, a
\* shortfall day and a day of reversals (negative entries, which cancel the
\* surplus day's flows)
FlowVals ==
    { [Inflow_INR |-> 2,  Outflow_INR |-> 1,  Balance_INR |-> 0],
      [Inflow_INR |-> 1,  Outflow_INR |-> 4,  Balance_INR |-> 2],
      [Inflow_INR |-> -2, Outflow_INR |-> -1, Balance_INR |-> -3] }

Row(acc, d, v) ==
    [Account_ID  |-> acc, Date |-> d, Inflow_INR |-> v.Inflow_INR,
     Outflow_INR |-> v.Outflow_INR, Balance_INR |-> v.Balance_INR]

\* a history of one account: one row per calendar day on n consecutive days
Histories(acc, first, n) ==
    { {Row(acc, d, h[d]) : d \in first..(first + n - 1)} :
        h \in [first..(first + n - 1) -> FlowVals] }

\* account 1 has up to MaxObs daily rows from day 0; account 2 is absent, or
\* has a single observation, on day 0 or on the day after account 1's window
Ledgers ==
    { h1 \cup h2 :
        h1 \in UNION {Histories(1, 0, n) : n \in 1..MaxObs},
        h2 \in {{}} \cup Histories(2, 0, 1) \cup Histories(2, MaxObs, 1) }

ScenarioRows == 14

\* one account, ScenarioRows identical daily rows
ScenarioLedger ==
    { [Account_ID  |-> 1, Date |-> d, Inflow_INR |-> 1000,
       Outflow_INR |-> 800, Balance_INR |-> 5000] : d \in 0..(ScenarioRows - 1) }

\* the balance snapshot handed to the engine: each account's last Balance_INR
LatestBalances(df) ==
    LET accs == SortedSeq(AccountIds(df))
    IN  [i \in 1..Len(accs) |->
            LET g == Group(df, accs[i])
            IN  [Account_ID  |-> accs[i],
                 Balance_INR |-> R(g[Len(g)].Balance_INR)]]

\* the arguments of run_baseline_forecasting: the defaults, the defaults
\* with the shortest horizon, and MaxH days with a window of one observation
\* under every alpha
ForecastCalls ==
    { [horizon |-> MaxH, rolling_window |-> 1, alpha |-> a] :
        a \in {Zero, DefaultAlpha, One} }
    \cup { [horizon |-> h, rolling_window |-> DefaultRollingWindow,
            alpha   |-> DefaultAlpha] : h \in {1, MaxH, DefaultHorizon} }

Tables == {"metrics", "structural", "balances"}

\* the arguments of run_cash_requirement_engine: stress_pct, and for each
\* input table the accounts whose row the caller does not supply (none, or
\* one account's row missing from one table or from all three)
RequirementCalls(accs) ==
    { [stress_pct |-> DefaultStressPct, absent |-> [t \in Tables |-> {}]],
      [stress_pct |-> Zero,             absent |-> [t \in Tables |-> {}]] }
    \cup { [stress_pct |-> DefaultStressPct,
            absent     |-> [t \in Tables |-> IF t \in T THEN {a} ELSE {}]] :
           a \in accs, T \in {{t} : t \in Tables} \cup {Tables} }

\* a table without the rows of the accounts in `absent`
Without(table, absent) ==
    SelectSeq(table, LAMBDA r : r.Account_ID \notin absent)

NoCall ==
    [horizon |-> 0, rolling_window |-> 0, alpha |-> Zero,
     stress_pct |-> Zero, absent |-> [t \in Tables |-> {}]]

----------------------------------------------------------------------------
(* The pipeline *)

Init ==
    /\ ledger \in Ledgers \cup {ScenarioLedger}
    /\ balances = LatestBalances(ledger)
    /\ pc = "loaded"
    /\ call = NoCall
    /\ account_metrics = <<>>
    /\ structural_cash = <<>>
    /\ account_forecast = <<>>
    /\ bank_forecast = <<>>
    /\ account_req = <<>>
    /\ bank_req = <<>>

\* run_behavior_intelligence(df)
RunBehaviorIntelligence ==
    /\ pc = "loaded"
    /\ account_metrics' = AccountBehaviorMetrics(ledger)
    /\ structural_cash' = StructuralCashEstimation(ledger, DefaultQuantile)
    /\ pc' = "analyzed"
    /\ UNCHANGED <<ledger, balances, call, account_forecast, bank_forecast,
                   account_req, bank_req>>

\* run_baseline_forecasting(df, horizon, rolling_window, alpha)
RunBaselineForecasting ==
    /\ pc = "analyzed"
    /\ \E c \in ForecastCalls :
        \E fc \in { AccountForecast(ledger, c.horizon, c.rolling_window,
                                    c.alpha) } :
            /\ account_forecast' = fc
            /\ bank_forecast' = BankForecast(fc)
            /\ call' = [call EXCEPT !.horizon = c.horizon,
                                    !.rolling_window = c.rolling_window,
                                    !.alpha = c.alpha]
    /\ pc' = "forecast"
    /\ UNCHANGED <<ledger, balances, account_metrics, structural_cash,
                   account_req, bank_req>>

\* run_cash_requirement_engine(account_forecasts, account_behavior_metrics,
\*                             structural_cash, balances, stress_pct)
RunCashRequirementEngine ==
    /\ pc = "forecast"
    /\ \E c \in RequirementCalls(AccountIds(ledger)) :
        \E df \in { AccountRequirement(
                        account_forecast,
                        Without(account_metrics, c.absent["metrics"]),
                        Without(structural_cash, c.absent["structural"]),
                        Without(balances, c.absent["balances"]),
                        c.stress_pct, DefaultConfidenceFactor) } :
            /\ account_req' = df
            /\ bank_req' = BankRequirement(df)
            /\ call' = [call EXCEPT !.stress_pct = c.stress_pct,
                                    !.absent = c.absent]
    /\ pc' = "done"
    /\ UNCHANGED <<ledger, balances, account_metrics, structural_cash,
                   account_forecast, bank_forecast>>

Next ==
    \/ RunBehaviorIntelligence
    \/ RunBaselineForecasting
    \/ RunCashRequirementEngine

Spec == Init /\ [][Next]_vars

----------------------------------------------------------------------------
(* Properties of run_baseline_forecasting *)

Forecasted == pc \in {"forecast", "done"}

\* the historical dates of one account, read off the input ledger
HistDates(acc) == {r.Date : r \in {x \in ledger : x.Account_ID = acc}}

\* the positions of the forecast rows of one account
RowsOf(acc) ==
    {i \in 1..Len(account_forecast) : account_forecast[i].Account_ID = acc}

\* the positions of the forecast rows of one Date
RowsOn(d) ==
    {i \in 1..Len(account_forecast) : account_forecast[i].Date = d}

RECURSIVE SumAt(_, _, _)
\* the sum of column `col` over the rows of `table` at the positions in I
SumAt(table, I, col) ==
    IF I = {} THEN Zero
    ELSE LET i == CHOOSE j \in I : TRUE
         IN  RAdd(table[i][col], SumAt(table, I \ {i}, col))

\* C1: every account of the ledger has exactly `horizon` forecast rows, on
\* the `horizon` consecutive calendar days that start the day after its own
\* last historical date; no (Date, Account_ID) pair occurs twice and no row
\* belongs to an account that is not in the ledger.
C1_ForecastDates ==
    Forecasted =>
        /\ \A a \in AccountIds(ledger) :
            \E m \in HistDates(a) :
                /\ \A e \in HistDates(a) : e <= m
                /\ Cardinality(RowsOf(a)) = call.horizon
                /\ {account_forecast[i].Date : i \in RowsOf(a)}
                       = (m + 1)..(m + call.horizon)
        /\ \A i, j \in 1..Len(account_forecast) :
            (/\ account_forecast[i].Date = account_forecast[j].Date
             /\ account_forecast[i].Account_ID = account_forecast[j].Account_ID)
                => i = j
        /\ \A i \in 1..Len(account_forecast) :
            account_forecast[i].Account_ID \in AccountIds(ledger)

\* two accounts with different last dates, forecast over more than one day
C1_Witness ==
    /\ pc = "forecast"
    /\ call.horizon = MaxH
    /\ \E a, b \in AccountIds(ledger) :
        \E m \in HistDates(a), n \in HistDates(b) :
            /\ \A e \in HistDates(a) : e <= m
            /\ \A e \in HistDates(b) : e <= n
            /\ m < n
            /\ Cardinality(RowsOf(a)) = MaxH
            /\ Cardinality(RowsOf(b)) = MaxH

\* C3: the bank-level forecast has exactly one row for each Date on which
\* some account has a forecast row, and no row for any other Date; its
\* Predicted_Inflow and Predicted_Outflow are the sums of the account-level
\* values over the accounts forecast on that Date.
C3_BankReconciles ==
    Forecasted =>
        /\ \A i \in 1..Len(bank_forecast) :
            /\ RowsOn(bank_forecast[i].Date) # {}
            /\ bank_forecast[i].Predicted_Inflow =
                   SumAt(account_forecast, RowsOn(bank_forecast[i].Date),
                         "Predicted_Inflow")
            /\ bank_forecast[i].Predicted_Outflow =
                   SumAt(account_forecast, RowsOn(bank_forecast[i].Date),
                         "Predicted_Outflow")
        /\ \A i \in 1..Len(account_forecast) :
            \E k \in 1..Len(bank_forecast) :
                bank_forecast[k].Date = account_forecast[i].Date
        /\ \A i, j \in 1..Len(bank_forecast) :
            bank_forecast[i].Date = bank_forecast[j].Date => i = j

\* a Date shared by two accounts with positive outflows, and a Date that only
\* one account reaches
C3_Witness ==
    /\ pc = "forecast"
    /\ \E i \in 1..Len(bank_forecast) :
        /\ Cardinality(RowsOn(bank_forecast[i].Date)) = 2
        /\ \A r \in RowsOn(bank_forecast[i].Date) :
            RGt(account_forecast[r].Predicted_Outflow, Zero)
        /\ RGt(bank_forecast[i].Predicted_Outflow, Zero)
    /\ \E i \in 1..Len(bank_forecast) :
        Cardinality(RowsOn(bank_forecast[i].Date)) = 1

\* C4: no Predicted_Inflow or Predicted_Outflow of the account-level or the
\* bank-level forecast is negative, whatever the ledger (negative entries
\* included) and whatever alpha in [0, 1].
C4_NonNegative ==
    Forecasted =>
        /\ \A i \in 1..Len(account_forecast) :
            /\ RLe(Zero, account_forecast[i].Predicted_Inflow)
            /\ RLe(Zero, account_forecast[i].Predicted_Outflow)
        /\ \A i \in 1..Len(bank_forecast) :
            /\ RLe(Zero, bank_forecast[i].Predicted_Inflow)
            /\ RLe(Zero, bank_forecast[i].Predicted_Outflow)

\* an account whose every entry is negative has been forecast, at 0
C4_Witness ==
    /\ pc = "forecast"
    /\ \E a \in AccountIds(ledger) :
        /\ \A r \in ledger :
            r.Account_ID = a => r.Inflow_INR < 0 /\ r.Outflow_INR < 0
        /\ RowsOf(a) # {}
        /\ \A i \in RowsOf(a) :
            /\ account_forecast[i].Predicted_Inflow = Zero
            /\ account_forecast[i].Predicted_Outflow = Zero

----------------------------------------------------------------------------
(* Properties of run_cash_requirement_engine *)

\* the positions of the account requirement rows of one Date
ReqRowsOn(d) == {i \in 1..Len(account_req) : account_req[i].Date = d}

\* C2: every row of the account requirement table is in exactly one of two
\* cases: Funding_Gap > 0 with Action RAISE_FUNDS and Idle_Cash 0, or
\* Funding_Gap <= 0 with Action INVEST_SURPLUS and Idle_Cash = -Funding_Gap;
\* the default label MONITOR never appears.
C2_ActionPartition ==
    pc = "done" =>
        \A i \in 1..Len(account_req) :
            LET raise ==
                    /\ RGt(account_req[i].Funding_Gap, Zero)
                    /\ account_req[i].Action = "RAISE_FUNDS"
                    /\ account_req[i].Idle_Cash = Zero
                invest ==
                    /\ RLe(account_req[i].Funding_Gap, Zero)
                    /\ account_req[i].Action = "INVEST_SURPLUS"
                    /\ account_req[i].Idle_Cash = RNeg(account_req[i].Funding_Gap)
            IN  /\ raise \/ invest
                /\ ~(raise /\ invest)
                /\ account_req[i].Action # "MONITOR"

\* one table with a shortfall row and a row of strictly positive idle cash
C2_Witness ==
    /\ pc = "done"
    /\ \E i \in 1..Len(account_req) : account_req[i].Action = "RAISE_FUNDS"
    /\ \E i \in 1..Len(account_req) :
        /\ account_req[i].Action = "INVEST_SURPLUS"
        /\ RGt(account_req[i].Idle_Cash, Zero)

\* the accounts the caller left out of every input table
AbsentEverywhere == {a \in AccountIds(ledger) : \A t \in Tables : a \in call.absent[t]}

\* C5: an account without a row in the behavior-metrics, structural-cash or
\* balances input does not make the engine fail or drop rows: the account
\* requirement table has one row per forecast row, in order, and a missing
\* Outflow_Volatility, Structural_Inflow or Balance_INR is taken as 0; with
\* all three missing, Required_Cash = Predicted_Outflow * (1 + stress_pct)
\* and Funding_Gap = Required_Cash.
C5_MissingRowsAreZero ==
    pc = "done" =>
        /\ Len(account_req) = Len(account_forecast)
        /\ \A i \in 1..Len(account_req) :
            /\ account_req[i].Date = account_forecast[i].Date
            /\ account_req[i].Account_ID = account_forecast[i].Account_ID
            /\ account_req[i].Predicted_Inflow = account_forecast[i].Predicted_Inflow
            /\ account_req[i].Predicted_Outflow = account_forecast[i].Predicted_Outflow
            /\ account_req[i].Account_ID \in call.absent["metrics"] =>
                /\ account_req[i].Outflow_Volatility = Zero
                /\ account_req[i].Safety_Buffer = Zero
            /\ account_req[i].Account_ID \in call.absent["structural"] =>
                /\ account_req[i].Structural_Inflow = Zero
                /\ account_req[i].Reliable_Inflow = Zero
            /\ account_req[i].Account_ID \in call.absent["balances"] =>
                account_req[i].Balance_INR = Zero
            /\ account_req[i].Account_ID \in AbsentEverywhere =>
                /\ account_req[i].Required_Cash =
                       RMul(account_req[i].Predicted_Outflow,
                            RAdd(One, call.stress_pct))
                /\ account_req[i].Funding_Gap = account_req[i].Required_Cash

\* an account that is in none of the three tables, although its history gave
\* it a non-zero volatility, structural inflow and balance, and a positive
\* predicted outflow
C5_Witness ==
    /\ pc = "done"
    /\ \E a \in AbsentEverywhere :
        /\ \E i \in 1..Len(account_metrics) :
            /\ account_metrics[i].Account_ID = a
            /\ RGt(account_metrics[i].Outflow_Volatility, Zero)
        /\ \E i \in 1..Len(structural_cash) :
            /\ structural_cash[i].Account_ID = a
            /\ structural_cash[i].Structural_Inflow # Zero
        /\ \E i \in 1..Len(balances) :
            /\ balances[i].Account_ID = a
            /\ balances[i].Balance_INR # Zero
        /\ \E i \in 1..Len(account_req) :
            /\ account_req[i].Account_ID = a
            /\ RGt(account_req[i].Predicted_Outflow, Zero)
            /\ RGt(account_req[i].Funding_Gap, Zero)

\* C8: the bank requirement table has exactly one row per distinct forecast
\* Date; its Predicted_Inflow, Predicted_Outflow, Required_Cash, Funding_Gap
\* and Idle_Cash are the sums over the account requirement rows of that Date;
\* its Action is BANK_FUNDING_REQUIRED exactly when the summed Funding_Gap is
\* > 0 and BANK_HAS_EXCESS_LIQUIDITY exactly when it is <= 0, and never an
\* account-scope label or BANK_MONITOR.
C8_BankRequirement ==
    pc = "done" =>
        /\ \A i \in 1..Len(bank_req) :
            /\ ReqRowsOn(bank_req[i].Date) # {}
            /\ \A col \in {"Predicted_Inflow", "Predicted_Outflow",
                           "Required_Cash", "Funding_Gap", "Idle_Cash"} :
                bank_req[i][col] =
                    SumAt(account_req, ReqRowsOn(bank_req[i].Date), col)
            /\ bank_req[i].Action = "BANK_FUNDING_REQUIRED"
                   <=> RGt(bank_req[i].Funding_Gap, Zero)
            /\ bank_req[i].Action = "BANK_HAS_EXCESS_LIQUIDITY"
                   <=> RLe(bank_req[i].Funding_Gap, Zero)
            /\ bank_req[i].Action \in
                   {"BANK_FUNDING_REQUIRED", "BANK_HAS_EXCESS_LIQUIDITY"}
        /\ \A i \in 1..Len(account_forecast) :
            \E k \in 1..Len(bank_req) :
                bank_req[k].Date = account_forecast[i].Date
        /\ \A i, j \in 1..Len(bank_req) :
            bank_req[i].Date = bank_req[j].Date => i = j

\* a bank table with a funding-required Date and an excess-liquidity Date,
\* one of them summed over two accounts
C8_Witness ==
    /\ pc = "done"
    /\ \E i \in 1..Len(bank_req) :
        bank_req[i].Action = "BANK_FUNDING_REQUIRED"
    /\ \E i \in 1..Len(bank_req) :
        bank_req[i].Action = "BANK_HAS_EXCESS_LIQUIDITY"
    /\ \E i \in 1..Len(bank_req) :
        /\ Cardinality(ReqRowsOn(bank_req[i].Date)) = 2
        /\ \A r \in ReqRowsOn(bank_req[i].Date) :
            account_req[r].Funding_Gap # Zero

----------------------------------------------------------------------------
(* The concrete scenario *)

\* the scenario ledger, forecast by run_baseline_forecasting(df)
ScenarioForecast ==
    /\ Forecasted
    /\ ledger = ScenarioLedger
    /\ call.horizon = DefaultHorizon
    /\ call.rolling_window = DefaultRollingWindow
    /\ call.alpha = DefaultAlpha

\* ... and passed on to the engine with stress_pct = 0.15 and every input row
ScenarioRequirement ==
    /\ ScenarioForecast
    /\ pc = "done"
    /\ call.stress_pct = DefaultStressPct
    /\ \A t \in Tables : call.absent[t] = {}

ScenarioValues ==
    /\ \A i \in 1..Len(account_forecast) :
        /\ account_forecast[i].Predicted_Inflow = R(1000)
        /\ account_forecast[i].Predicted_Outflow = R(800)
    /\ ScenarioRequirement =>
        /\ Len(account_req) = Len(account_forecast)
        /\ \A i \in 1..Len(account_req) :
            /\ account_req[i].Safety_Buffer = Zero
            /\ account_req[i].Stress_Buffer = R(120)
            /\ account_req[i].Required_Cash = R(-80)
            /\ account_req[i].Funding_Gap = R(-5080)
            /\ account_req[i].Idle_Cash = R(5080)
            /\ account_req[i].Action = "INVEST_SURPLUS"

----------------------------------------------------------------------------
(* Properties of run_behavior_intelligence *)

Analyzed == pc # "loaded"

\* the structural-cash rows of one account
StructuralOf(acc) ==
    {i \in 1..Len(structural_cash) : structural_cash[i].Account_ID = acc}

\* C7 as stated: an account whose Avg_Outflow is 0 has Outflow_CV = 0, not
\* NaN, and an account whose mean Inflow is 0 has Structural_Ratio = 0.
C7_ZeroDenominatorIsZero ==
    Analyzed =>
        \A i \in 1..Len(account_metrics) :
            /\ account_metrics[i].Avg_Outflow = Zero =>
                account_metrics[i].Outflow_CV = Zero
            /\ account_metrics[i].Avg_Inflow = Zero =>
                \A k \in StructuralOf(account_metrics[i].Account_ID) :
                    structural_cash[k].Structural_Ratio = Zero

\* C7 amended: an account whose Avg_Outflow is 0 has Outflow_CV = NaN, and
\* the Stability_Score derived from it is 0; an account whose mean Inflow is
\* 0 has a structural-cash row, and its Structural_Ratio is 0.
C7_ZeroDenominator ==
    Analyzed =>
        \A i \in 1..Len(account_metrics) :
            /\ account_metrics[i].Avg_Outflow = Zero =>
                /\ IsNaN(account_metrics[i].Outflow_CV)
                /\ account_metrics[i].Stability_Score = Zero
            /\ account_metrics[i].Avg_Inflow = Zero =>
                /\ StructuralOf(account_metrics[i].Account_ID) # {}
                /\ \A k \in StructuralOf(account_metrics[i].Account_ID) :
                    structural_cash[k].Structural_Ratio = Zero

\* an account whose flows vary but average to 0 on both sides
C7_Witness ==
    /\ pc = "analyzed"
    /\ \E i \in 1..Len(account_metrics) :
        /\ account_metrics[i].Avg_Outflow = Zero
        /\ account_metrics[i].Avg_Inflow = Zero
        /\ RGt(account_metrics[i].Outflow_Volatility, Zero)
        /\ \E k \in StructuralOf(account_metrics[i].Account_ID) :
            structural_cash[k].Structural_Inflow # Zero

\* C9: for every account, a defined Outflow_CV gives Stability_Score =
\* 1 / (1 + Outflow_CV), which lies in (0, 1]; Avg_Outflow = 0 gives
\* Stability_Score = 0; and no Stability_Score is outside {0} \cup (0, 1].
C9_StabilityScore ==
    Analyzed =>
        \A i \in 1..Len(account_metrics) :
            /\ ~IsNaN(account_metrics[i].Outflow_CV) =>
                /\ account_metrics[i].Stability_Score =
                       RDiv(One, RAdd(One, account_metrics[i].Outflow_CV))
                /\ RGt(account_metrics[i].Stability_Score, Zero)
                /\ RLe(account_metrics[i].Stability_Score, One)
            /\ account_metrics[i].Avg_Outflow = Zero =>
                account_metrics[i].Stability_Score = Zero
            /\ \/ account_metrics[i].Stability_Score = Zero
               \/ /\ RGt(account_metrics[i].Stability_Score, Zero)
                  /\ RLe(account_metrics[i].Stability_Score, One)

\* one account with a positive CV and a score strictly inside (0, 1), and
\* one account whose CV is undefined and whose score is 0
C9_Witness ==
    /\ pc = "analyzed"
    /\ \E i \in 1..Len(account_metrics) :
        /\ RGt(account_metrics[i].Outflow_CV, Zero)
        /\ RGt(account_metrics[i].Stability_Score, Zero)
        /\ RLt(account_metrics[i].Stability_Score, One)
    /\ \E i \in 1..Len(account_metrics) :
        /\ IsNaN(account_metrics[i].Outflow_CV)
        /\ account_metrics[i].Stability_Score = Zero

----------------------------------------------------------------------------
(* The seasonal fallback *)

\* the weekdays on which an account has an observation
HistWeekdays(acc) == {DayOfWeek(d) : d \in HistDates(acc)}

\* C10: a forecast row on a weekday the account's history never saw is
\* predicted at max(RollIn, 0) / max(RollOut, 0), whatever alpha; an account
\* with a single observation has all `horizon` rows, each at that
\* observation's Inflow and Outflow clamped at 0; and with fewer than
\* rolling_window observations RollIn / RollOut are the means of all of them.
C10_SeasonalFallback ==
    Forecasted =>
        \A a \in AccountIds(ledger) :
            \A g \in {Group(ledger, a)} :
                /\ \A i \in RowsOf(a) :
                    DayOfWeek(account_forecast[i].Date) \notin HistWeekdays(a) =>
                        /\ account_forecast[i].Predicted_Inflow =
                               PyMax(RollIn(g, call.rolling_window), Zero)
                        /\ account_forecast[i].Predicted_Outflow =
                               PyMax(RollOut(g, call.rolling_window), Zero)
                        /\ Len(g) < call.rolling_window =>
                            /\ account_forecast[i].Predicted_Inflow =
                                   PyMax(Mean(Inflows(g)), Zero)
                            /\ account_forecast[i].Predicted_Outflow =
                                   PyMax(Mean(Outflows(g)), Zero)
                /\ Len(g) = 1 =>
                    /\ Cardinality(RowsOf(a)) = call.horizon
                    /\ \A i \in RowsOf(a) :
                        /\ account_forecast[i].Predicted_Inflow =
                               PyMax(R(g[1].Inflow_INR), Zero)
                        /\ account_forecast[i].Predicted_Outflow =
                               PyMax(R(g[1].Outflow_INR), Zero)

\* under alpha = 0.7 and a window of one observation, an account with more
\* observations than the window has a row on an unseen weekday and a row on
\* a seen weekday that is predicted differently, next to an account with a
\* single observation
C10_Witness ==
    /\ pc = "forecast"
    /\ call.alpha = DefaultAlpha
    /\ call.rolling_window = 1
    /\ \E a \in AccountIds(ledger) :
        /\ Cardinality(HistDates(a)) > 1
        /\ \E i, j \in RowsOf(a) :
            /\ DayOfWeek(account_forecast[i].Date) \notin HistWeekdays(a)
            /\ DayOfWeek(account_forecast[j].Date) \in HistWeekdays(a)
            /\ account_forecast[i].Predicted_Inflow
                   # account_forecast[j].Predicted_Inflow
            /\ RGt(account_forecast[i].Predicted_Inflow, Zero)
    /\ \E a \in AccountIds(ledger) :
        /\ Cardinality(HistDates(a)) = 1
        /\ Cardinality(RowsOf(a)) = MaxH

----------------------------------------------------------------------------
(* Idle cash at bank level *)

\* the account rows of one Date include a shortfall and a surplus
Mixed(d) ==
    /\ \E r \in ReqRowsOn(d) : RGt(account_req[r].Funding_Gap, Zero)
    /\ \E r \in ReqRowsOn(d) : RLt(account_req[r].Funding_Gap, Zero)

\* C11: in the bank requirement table Idle_Cash is the sum of the accounts'
\* Idle_Cash on that Date, hence at least max(-Funding_Gap, 0) for the row's
\* own summed Funding_Gap; on a Date that mixes a shortfall account and a
\* surplus account it is strictly positive and strictly above
\* max(-Funding_Gap, 0), so that a row whose summed Funding_Gap is > 0 is
\* BANK_FUNDING_REQUIRED with positive Idle_Cash.
C11_BankIdleCash ==
    pc = "done" =>
        \A i \in 1..Len(bank_req) :
            /\ bank_req[i].Idle_Cash =
                   SumAt(account_req, ReqRowsOn(bank_req[i].Date), "Idle_Cash")
            /\ RLe(PyMax(RNeg(bank_req[i].Funding_Gap), Zero),
                   bank_req[i].Idle_Cash)
            /\ Mixed(bank_req[i].Date) =>
                /\ RGt(bank_req[i].Idle_Cash, Zero)
                /\ RGt(bank_req[i].Idle_Cash,
                       PyMax(RNeg(bank_req[i].Funding_Gap), Zero))
                /\ RGt(bank_req[i].Funding_Gap, Zero) =>
                    bank_req[i].Action = "BANK_FUNDING_REQUIRED"

\* a Date with a shortfall account and a surplus account whose bank row is
\* BANK_FUNDING_REQUIRED and still shows idle cash
C11_Witness ==
    /\ pc = "done"
    /\ \E i \in 1..Len(bank_req) :
        /\ Mixed(bank_req[i].Date)
        /\ bank_req[i].Action = "BANK_FUNDING_REQUIRED"
        /\ RGt(bank_req[i].Funding_Gap, Zero)
        /\ RGt(bank_req[i].Idle_Cash, Zero)

====
